---- MODULE Spec2Model ----
(***************************************************************************)
(* Model of scripts/scheduler.py: a registry of scheduled tasks            *)
(* (registry.json), one launchd descriptor file (plist) per task in        *)
(* ~/Library/LaunchAgents, and the set of labels launchd has loaded.       *)
(* Every sub-command of the tool is one action; launchctl's exit status is *)
(* a nondeterministic input of the action that calls it.                   *)
(***************************************************************************)
EXTENDS Integers, Sequences, FiniteSets, TLC

\* ------------------------------------------------------------------ bounds
\* datetime.now() readings are 0..MaxClock
MaxClock == 1

\* ------------------------------------------------------------------ inputs
\* A task name is the sequence of its characters.
NameA    == <<"a">>
NameDot  == <<"a", ".">>
NameInputs == {<< >>, NameA, NameDot, <<"a", "/">>, <<"a", " ">>}

\* the characters of NameInputs that the error message of create_task says a
\* name may use (alphanumerics, dashes, underscores)
NameCharset == {"a", "-", "_"}

CommandInputs == {"c1", "c2"}

\* values argparse (type=int) can hand over for each schedule option; the
\* weekday stays within 0..6, where format_schedule's days[...] is defined
ScheduleKeys == {"interval", "hour", "minute", "weekday", "day"}
CalendarKeys == {"hour", "minute", "weekday", "day"}
ArgValues(k) ==
    CASE k = "interval" -> {-1, 0, 300}
      [] k = "hour"     -> {0, 9}
      [] k = "minute"   -> {30}
      [] k = "weekday"  -> {0}
      [] k = "day"      -> {1}

\* An argparse namespace restricted to the schedule options: an option left
\* out on the command line (None) is a key that is not in the domain.
AllArgValues == UNION {ArgValues(k) : k \in ScheduleKeys}

ArgsOver(keys) ==
    UNION { {f \in [S -> AllArgValues] : \A k \in S : f[k] \in ArgValues(k)} : S \in SUBSET keys }

ScheduleArgs == ArgsOver(ScheduleKeys)

\* ------------------------------------------------------------------ paths
LABEL_PREFIX == "com.claude.scheduled."
LAUNCH_AGENTS_DIR == "~/Library/LaunchAgents/"
LOG_DIR == "/tmp/"

get_plist_path(name) == <<LAUNCH_AGENTS_DIR, LABEL_PREFIX>> \o name \o <<".plist">>

\* faulty variant: the label does not carry the name
get_label_without_name(name) == <<LABEL_PREFIX>>

get_label(name) == <<LABEL_PREFIX>> \o name

\* ------------------------------------------------------------------ state
VARIABLES
    registry,   \* registry.json: task name -> task record (a partial function)
    plists,     \* descriptor files on disk: path -> plist dictionary
    loaded,     \* labels launchd currently has loaded
    now,        \* the reading datetime.now() gives
    lastOp,     \* sub-command of the last invocation ("external" for another actor)
    lastName,   \* its --name
    outcome,    \* "ok" (returned) or "error" (sys.exit(1))
    calls,      \* launchctl calls the last invocation issued, in order
    lastArgs,   \* history: the schedule options of the last invocation
    prev,       \* history: the stores and the invocation before the last one
    run         \* the invocation in progress, where invocations are taken step by step

vars == <<registry, plists, loaded, now, lastOp, lastName, outcome, calls, lastArgs, prev,
          run>>

stores == <<registry, plists, loaded>>

\* ------------------------------------------------------- descriptor generator
\* build_plist: the plist dictionary of a task
build_plist(name, command, schedule) ==
    LET plist == [Label             |-> get_label(name),
                  ProgramArguments  |-> <<"/bin/bash", "-c", command>>,
                  StandardOutPath   |-> <<LOG_DIR, "claude-scheduled-">> \o name \o <<".log">>,
                  StandardErrorPath |-> <<LOG_DIR, "claude-scheduled-">> \o name \o <<".err">>,
                  RunAtLoad         |-> FALSE]
        calendar_interval ==
            (IF "hour" \in DOMAIN schedule THEN "Hour" :> schedule["hour"] ELSE << >>)
            @@ (IF "minute" \in DOMAIN schedule THEN "Minute" :> schedule["minute"] ELSE << >>)
            @@ (IF "weekday" \in DOMAIN schedule THEN "Weekday" :> schedule["weekday"] ELSE << >>)
            @@ (IF "day" \in DOMAIN schedule THEN "Day" :> schedule["day"] ELSE << >>)
    IN  IF "interval" \in DOMAIN schedule
        THEN plist @@ ("StartInterval" :> schedule["interval"])
        ELSE IF DOMAIN calendar_interval # {}
             THEN plist @@ ("StartCalendarInterval" :> calendar_interval)
             ELSE plist

\* ------------------------------------------------------------- launchctl
\* launchctl load <path>: on exit status 0 the label of the descriptor at
\* <path> is loaded; on a non-zero status nothing changed.
launchctl_load(ld, files, path, ok) ==
    IF ok /\ path \in DOMAIN files THEN ld \cup {files[path].Label} ELSE ld

\* launchctl unload <path>: on exit status 0 the label of the descriptor at
\* <path> is no longer loaded; on a non-zero status nothing changed.
launchctl_unload(ld, files, path, ok) ==
    IF ok /\ path \in DOMAIN files THEN ld \ {files[path].Label} ELSE ld

Call(kind, target, ok) == [call |-> kind, target |-> target, ok |-> ok]

\* every call of the sequence exited with status 0
AllOk(issued) == \A i \in 1..Len(issued) : issued[i].ok

\* ----------------------------------------------------------- file helpers
\* open(path, "wb"); plistlib.dump(plist, f)
write_plist(files, path, plist) ==
    [p \in DOMAIN files \cup {path} |-> IF p = path THEN plist ELSE files[p]]

\* plist_path.unlink()
unlink(files, path) == [p \in DOMAIN files \ {path} |-> files[p]]

\* registry["tasks"][name] = task
put_task(reg, name, task) ==
    [n \in DOMAIN reg \cup {name} |-> IF n = name THEN task ELSE reg[n]]

\* del registry["tasks"][name]
del_task(reg, name) == [n \in DOMAIN reg \ {name} |-> reg[n]]

\* sys.exit(1) before anything was written or called
Abort(op, name) ==
    /\ lastOp' = op
    /\ lastName' = name
    /\ outcome' = "error"
    /\ calls' = << >>
    /\ UNCHANGED <<registry, plists, loaded, now>>

\* every launchctl unload among the calls exited with status 0
UnloadsOk(issued) == \A i \in 1..Len(issued) : issued[i].call = "unload" => issued[i].ok

\* the invocation returned normally
Done(op, name, issued) ==
    /\ lastOp' = op
    /\ lastName' = name
    /\ outcome' = "ok"
    /\ calls' = issued

\* ------------------------------------------------------------------ create
\* create_task: "if not name or '/' in name or ' ' in name"
create_name_invalid(name) ==
    \/ name = << >>
    \/ \E i \in 1..Len(name) : name[i] \in {"/", " "}

\* faulty variant: the duplicate check is missing
create_name_taken_never(reg, name) == FALSE

\* create_task: "if name in registry['tasks']"
create_name_taken(reg, name) == name \in DOMAIN reg

\* create_task: "Build schedule"
create_schedule(args) ==
    IF "interval" \in DOMAIN args /\ args["interval"] # 0
    THEN "interval" :> args["interval"]
    ELSE [k \in DOMAIN args \cap CalendarKeys |-> args[k]]

\* faulty variant: the schedule is checked after the descriptor was written and loaded
create_task_late_schedule_check(name, command, args, load_ok, t) ==
    IF create_name_invalid(name) THEN Abort("create", name)
    ELSE IF create_name_taken(registry, name) THEN Abort("create", name)
    ELSE LET schedule == create_schedule(args)
             plist_path == get_plist_path(name)
             written == write_plist(plists, plist_path, build_plist(name, command, schedule))
         IN  /\ plists' = written
             /\ loaded' = launchctl_load(loaded, written, plist_path, load_ok)
             /\ IF DOMAIN schedule = {}
                THEN /\ lastOp' = "create"
                     /\ lastName' = name
                     /\ outcome' = "error"
                     /\ calls' = <<Call("load", plist_path, load_ok)>>
                     /\ UNCHANGED <<registry, now>>
                ELSE /\ registry' = put_task(registry, name,
                                      [name       |-> name,
                                       command    |-> command,
                                       schedule   |-> schedule,
                                       created    |-> t,
                                       enabled    |-> TRUE,
                                       plist_path |-> plist_path])
                     /\ now' = t
                     /\ Done("create", name, <<Call("load", plist_path, load_ok)>>)

create_task(name, command, args, load_ok, t) ==
    IF create_name_invalid(name) THEN Abort("create", name)
    ELSE IF create_name_taken(registry, name) THEN Abort("create", name)
    ELSE LET schedule == create_schedule(args)
             plist_path == get_plist_path(name)
             written == write_plist(plists, plist_path, build_plist(name, command, schedule))
         IN  IF DOMAIN schedule = {} THEN Abort("create", name)
             ELSE /\ plists' = written
                  /\ loaded' = launchctl_load(loaded, written, plist_path, load_ok)
                  /\ registry' = put_task(registry, name,
                                   [name       |-> name,
                                    command    |-> command,
                                    schedule   |-> schedule,
                                    created    |-> t,
                                    enabled    |-> TRUE,
                                    plist_path |-> plist_path])
                  /\ now' = t
                  /\ Done("create", name, <<Call("load", plist_path, load_ok)>>)

\* faulty variant: unlink of a descriptor that is gone raises FileNotFoundError
remove_task_unlink_raises(name, unload_ok) ==
    IF name \notin DOMAIN registry THEN Abort("remove", name)
    ELSE IF get_plist_path(name) \notin DOMAIN plists THEN Abort("remove", name)
    ELSE LET plist_path == get_plist_path(name)
         IN  /\ loaded' = launchctl_unload(loaded, plists, plist_path, unload_ok)
             /\ plists' = unlink(plists, plist_path)
             /\ registry' = del_task(registry, name)
             /\ UNCHANGED now
             /\ Done("remove", name, <<Call("unload", plist_path, unload_ok)>>)

\* ------------------------------------------------------------------ remove
remove_task(name, unload_ok) ==
    IF name \notin DOMAIN registry THEN Abort("remove", name)
    ELSE LET plist_path == get_plist_path(name)
             exists == plist_path \in DOMAIN plists
         IN  /\ loaded' = IF exists THEN launchctl_unload(loaded, plists, plist_path, unload_ok)
                          ELSE loaded
             /\ plists' = IF exists THEN unlink(plists, plist_path) ELSE plists
             /\ registry' = del_task(registry, name)
             /\ UNCHANGED now
             /\ Done("remove", name,
                     IF exists THEN <<Call("unload", plist_path, unload_ok)>> ELSE << >>)

\* faulty variant: disable does not unload
disable_task_keeps_loaded(name, unload_ok) ==
    IF name \notin DOMAIN registry THEN Abort("disable", name)
    ELSE /\ registry' = [registry EXCEPT ![name].enabled = FALSE]
         /\ UNCHANGED <<plists, loaded, now>>
         /\ Done("disable", name, << >>)

\* ----------------------------------------------------------------- disable
disable_task(name, unload_ok) ==
    IF name \notin DOMAIN registry THEN Abort("disable", name)
    ELSE LET plist_path == get_plist_path(name)
             exists == plist_path \in DOMAIN plists
         IN  /\ loaded' = IF exists THEN launchctl_unload(loaded, plists, plist_path, unload_ok)
                          ELSE loaded
             /\ registry' = [registry EXCEPT ![name].enabled = FALSE]
             /\ UNCHANGED <<plists, now>>
             /\ Done("disable", name,
                     IF exists THEN <<Call("unload", plist_path, unload_ok)>> ELSE << >>)

\* faulty variant: enabled is set only when the load succeeded
enable_task_only_when_loaded(name, load_ok) ==
    IF name \notin DOMAIN registry THEN Abort("enable", name)
    ELSE LET plist_path == get_plist_path(name)
             exists == plist_path \in DOMAIN plists
         IN  /\ loaded' = IF exists THEN launchctl_load(loaded, plists, plist_path, load_ok)
                          ELSE loaded
             /\ registry' = IF exists /\ load_ok
                            THEN [registry EXCEPT ![name].enabled = TRUE]
                            ELSE registry
             /\ UNCHANGED <<plists, now>>
             /\ Done("enable", name,
                     IF exists THEN <<Call("load", plist_path, load_ok)>> ELSE << >>)

\* ------------------------------------------------------------------ enable
enable_task(name, load_ok) ==
    IF name \notin DOMAIN registry THEN Abort("enable", name)
    ELSE LET plist_path == get_plist_path(name)
             exists == plist_path \in DOMAIN plists
         IN  /\ loaded' = IF exists THEN launchctl_load(loaded, plists, plist_path, load_ok)
                          ELSE loaded
             /\ registry' = [registry EXCEPT ![name].enabled = TRUE]
             /\ UNCHANGED <<plists, now>>
             /\ Done("enable", name,
                     IF exists THEN <<Call("load", plist_path, load_ok)>> ELSE << >>)

\* -------------------------------------------------------------------- edit
\* edit_task: "if args.command: task['command'] = args.command"; cmd_opt is
\* << >> when --command was left out and <<c>> when it was given as c
edit_command(command, cmd_opt) ==
    IF cmd_opt # << >> /\ cmd_opt[1] # "" THEN cmd_opt[1] ELSE command

\* faulty variant: the interval is merged into the schedule like the other options
edit_schedule_merges_interval(schedule, args) ==
    [k \in DOMAIN schedule \cup DOMAIN args |-> IF k \in DOMAIN args THEN args[k] ELSE schedule[k]]

\* faulty variant: a calendar option does not take the interval out
edit_schedule_keeps_interval(schedule, args) ==
    IF "interval" \in DOMAIN args
    THEN "interval" :> args["interval"]
    ELSE LET supplied == DOMAIN args \cap CalendarKeys
         IN  [k \in DOMAIN schedule \cup supplied |->
                 IF k \in supplied THEN args[k] ELSE schedule[k]]

\* edit_task: "Update schedule if any schedule args provided"
edit_schedule(schedule, args) ==
    IF "interval" \in DOMAIN args
    THEN "interval" :> args["interval"]
    ELSE LET supplied == DOMAIN args \cap CalendarKeys
             kept == IF supplied # {} THEN DOMAIN schedule \ {"interval"} ELSE DOMAIN schedule
         IN  [k \in kept \cup supplied |-> IF k \in supplied THEN args[k] ELSE schedule[k]]

\* edit_task: "if task.get('enabled', True)"
edit_reloads(task) == IF "enabled" \in DOMAIN task THEN task.enabled ELSE TRUE

\* faulty variant: a failed reload ends the invocation before the registry is saved
edit_task_stops_on_failed_load(name, cmd_opt, args, unload_ok, load_ok, t) ==
    IF name \notin DOMAIN registry THEN Abort("edit", name)
    ELSE LET task == registry[name]
             command == edit_command(task.command, cmd_opt)
             schedule == edit_schedule(task.schedule, args)
             plist_path == get_plist_path(name)
             exists == plist_path \in DOMAIN plists
             unloaded == IF exists THEN launchctl_unload(loaded, plists, plist_path, unload_ok)
                         ELSE loaded
             written == write_plist(plists, plist_path, build_plist(name, command, schedule))
             reload == edit_reloads(task)
             issued == (IF exists THEN <<Call("unload", plist_path, unload_ok)>> ELSE << >>)
                       \o (IF reload THEN <<Call("load", plist_path, load_ok)>> ELSE << >>)
         IN  /\ plists' = written
             /\ loaded' = IF reload THEN launchctl_load(unloaded, written, plist_path, load_ok)
                          ELSE unloaded
             /\ IF reload /\ ~load_ok
                THEN /\ lastOp' = "edit"
                     /\ lastName' = name
                     /\ outcome' = "error"
                     /\ calls' = issued
                     /\ UNCHANGED <<registry, now>>
                ELSE /\ registry' = put_task(registry, name,
                                      ("command" :> command) @@ ("schedule" :> schedule)
                                      @@ ("modified" :> t) @@ task)
                     /\ now' = t
                     /\ Done("edit", name, issued)

edit_task(name, cmd_opt, args, unload_ok, load_ok, t) ==
    IF name \notin DOMAIN registry THEN Abort("edit", name)
    ELSE LET task == registry[name]
             command == edit_command(task.command, cmd_opt)
             schedule == edit_schedule(task.schedule, args)
             plist_path == get_plist_path(name)
             exists == plist_path \in DOMAIN plists
             unloaded == IF exists THEN launchctl_unload(loaded, plists, plist_path, unload_ok)
                         ELSE loaded
             written == write_plist(plists, plist_path, build_plist(name, command, schedule))
             reload == edit_reloads(task)
         IN  /\ plists' = written
             /\ loaded' = IF reload THEN launchctl_load(unloaded, written, plist_path, load_ok)
                          ELSE unloaded
             /\ registry' = put_task(registry, name,
                              ("command" :> command) @@ ("schedule" :> schedule)
                              @@ ("modified" :> t) @@ task)
             /\ now' = t
             /\ Done("edit", name,
                     (IF exists THEN <<Call("unload", plist_path, unload_ok)>> ELSE << >>)
                     \o (IF reload THEN <<Call("load", plist_path, load_ok)>> ELSE << >>))

\* faulty variant: the exit status of launchctl start is not looked at
run_now_ignores_status(name, start_ok) ==
    IF name \notin DOMAIN registry THEN Abort("run", name)
    ELSE /\ lastOp' = "run"
         /\ lastName' = name
         /\ outcome' = "ok"
         /\ calls' = <<Call("start", get_label(name), start_ok)>>
         /\ UNCHANGED <<registry, plists, loaded, now>>

\* ----------------------------------------------------------------- run-now
run_now(name, start_ok) ==
    IF name \notin DOMAIN registry THEN Abort("run", name)
    ELSE /\ lastOp' = "run"
         /\ lastName' = name
         /\ outcome' = IF start_ok THEN "ok" ELSE "error"
         /\ calls' = <<Call("start", get_label(name), start_ok)>>
         /\ UNCHANGED <<registry, plists, loaded, now>>

\* ---------------------------------------------------------- other actors
\* somebody deletes a descriptor file by hand
ExternalDelete(name) ==
    /\ get_plist_path(name) \in DOMAIN plists
    /\ plists' = unlink(plists, get_plist_path(name))
    /\ lastOp' = "external"
    /\ lastName' = name
    /\ outcome' = "ok"
    /\ calls' = << >>
    /\ UNCHANGED <<registry, loaded, now>>

\* -------------------------------------------------------------- the system
\* datetime.now(): the clock has not gone back since the last reading
Clock == {t \in now..(now + 1) : t <= MaxClock}

\* edit's --command: left out, empty, or a command
CommandOptions == {<< >>, <<"">>} \cup {<<c>> : c \in CommandInputs}

\* the names the sub-commands other than create are tried on: the two that
\* create accepts (each is absent until created)
TaskNames == {NameA, NameDot}

\* schedule options of the lifecycle specification: none, or an interval
LifecycleArgs == {a \in ScheduleArgs : DOMAIN a = {} \/ a = ("interval" :> 300)}

NoHistory == [registry |-> << >>, plists |-> << >>, loaded |-> {}, lastOp |-> "none",
              lastName |-> << >>, outcome |-> "ok", calls |-> << >>, clean |-> TRUE,
              cleanUnload |-> TRUE]

\* a command line: the sub-command and its options
Invocation(op, name, command, cmd_opt, args) ==
    [op |-> op, name |-> name, command |-> command, cmd_opt |-> cmd_opt, args |-> args]

NoStores == [registry |-> << >>, plists |-> << >>, loaded |-> {}]

\* no process is running
Idle == [pc |-> "idle", inv |-> Invocation("none", << >>, "", << >>, << >>), reg |-> << >>,
         attempt |-> 0, origin |-> NoStores]

\* first run: no registry.json, no descriptor, nothing loaded
Init ==
    /\ registry = << >>
    /\ plists = << >>
    /\ loaded = {}
    /\ now = 0
    /\ lastOp = "none"
    /\ lastName = << >>
    /\ outcome = "ok"
    /\ calls = << >>
    /\ lastArgs = << >>
    /\ prev = NoHistory
    /\ run = Idle

\* the history variables are left alone ...
Untracked == UNCHANGED <<lastArgs, prev, run>>

\* ... or record the invocation's schedule options, what it started from, and
\* whether every launchctl call before it had succeeded (clean), and every
\* launchctl unload before it (cleanUnload)
Tracked(args) ==
    /\ lastArgs' = args
    /\ prev' = [registry |-> registry, plists |-> plists, loaded |-> loaded,
                lastOp |-> lastOp, lastName |-> lastName, outcome |-> outcome,
                calls |-> calls, clean |-> prev.clean /\ AllOk(calls),
                cleanUnload |-> prev.cleanUnload /\ UnloadsOk(calls)]
    /\ UNCHANGED run

\* ---- Spec: the life cycle of two tasks, launchctl failing at will, and
\* descriptor files deleted by hand
Create == \E name \in NameInputs, command \in CommandInputs, args \in LifecycleArgs,
             load_ok \in BOOLEAN :
             create_task(name, command, args, load_ok, now) /\ Untracked

Remove == \E name \in TaskNames, unload_ok \in BOOLEAN :
             remove_task(name, unload_ok) /\ Untracked

Disable == \E name \in TaskNames, unload_ok \in BOOLEAN :
              disable_task(name, unload_ok) /\ Untracked

Enable == \E name \in TaskNames, load_ok \in BOOLEAN :
             enable_task(name, load_ok) /\ Untracked

Edit == \E name \in TaskNames, cmd_opt \in CommandOptions, args \in LifecycleArgs,
           unload_ok \in BOOLEAN, load_ok \in BOOLEAN :
           edit_task(name, cmd_opt, args, unload_ok, load_ok, now) /\ Untracked

RunNow == \E name \in TaskNames, start_ok \in BOOLEAN : run_now(name, start_ok) /\ Untracked

External == \E name \in TaskNames : ExternalDelete(name) /\ Untracked

Next == Create \/ Remove \/ Disable \/ Enable \/ Edit \/ RunNow \/ External

Spec == Init /\ [][Next]_vars

\* ---- SpecSchedule: every combination of schedule options on one task, with
\* launchctl succeeding; the history variables are recorded
ScheduleCreate == \E args \in ScheduleArgs :
                     create_task(NameA, "c1", args, TRUE, now) /\ Tracked(args)

ScheduleEdit == \E args \in ScheduleArgs :
                   edit_task(NameA, << >>, args, TRUE, TRUE, now) /\ Tracked(args)

ScheduleRemove == remove_task(NameA, TRUE) /\ Tracked(<< >>)

NextSchedule == ScheduleCreate \/ ScheduleEdit \/ ScheduleRemove

SpecSchedule == Init /\ [][NextSchedule]_vars

\* ---- SpecPair: consecutive invocations on one task, launchctl failing at
\* will, the descriptor deleted by hand and the clock advancing; the history
\* variables are recorded
PairCreate == \E load_ok \in BOOLEAN, t \in Clock :
                 create_task(NameA, "c1", "interval" :> 300, load_ok, t)
                 /\ Tracked("interval" :> 300)

PairRemove == \E unload_ok \in BOOLEAN : remove_task(NameA, unload_ok) /\ Tracked(<< >>)

PairDisable == \E unload_ok \in BOOLEAN : disable_task(NameA, unload_ok) /\ Tracked(<< >>)

PairEnable == \E load_ok \in BOOLEAN : enable_task(NameA, load_ok) /\ Tracked(<< >>)

\* edit's inputs there: --command left out or c2, no schedule option or an hour
PairCommandOptions == {<< >>, <<"c2">>}

PairArgs == {<< >>, "hour" :> 9}

PairEdit == \E cmd_opt \in PairCommandOptions, args \in PairArgs,
               unload_ok \in BOOLEAN, load_ok \in BOOLEAN, t \in Clock :
               edit_task(NameA, cmd_opt, args, unload_ok, load_ok, t) /\ Tracked(args)

PairExternal == ExternalDelete(NameA) /\ Tracked(<< >>)

NextPair == PairCreate \/ PairRemove \/ PairDisable \/ PairEnable \/ PairEdit \/ PairExternal

SpecPair == Init /\ [][NextPair]_vars

\* ---- SpecTool: as SpecPair, with nobody but the tool touching the stores
NextTool == PairCreate \/ PairRemove \/ PairDisable \/ PairEnable \/ PairEdit

SpecTool == Init /\ [][NextTool]_vars

\* ---- SpecSteps: one task, each invocation taken statement by statement; a
\* process can be killed between two statements and the same command line run
\* again; launchctl succeeds; descriptor files are deleted by hand between
\* invocations
\* the statement an invocation reaches after load_registry and its checks
\* ("exit" is sys.exit(1))
start_pc(inv, reg, files) ==
    LET exists == get_plist_path(inv.name) \in DOMAIN files
    IN  IF inv.op = "create"
        THEN IF \/ create_name_invalid(inv.name)
                \/ create_name_taken(reg, inv.name)
                \/ DOMAIN create_schedule(inv.args) = {}
             THEN "exit" ELSE "write"
        ELSE IF inv.name \notin DOMAIN reg THEN "exit"
        ELSE IF inv.op = "edit" THEN (IF exists THEN "unload" ELSE "write")
        ELSE IF inv.op = "enable" THEN (IF exists THEN "load" ELSE "save")
        ELSE (IF exists THEN "unload" ELSE "save")

\* the registry in the memory of the process at that statement: edit_task has
\* set task["command"] and task["schedule"]
start_reg(inv, reg) ==
    IF inv.op = "edit" /\ inv.name \in DOMAIN reg
    THEN put_task(reg, inv.name,
                  ("command" :> edit_command(reg[inv.name].command, inv.cmd_opt))
                  @@ ("schedule" :> edit_schedule(reg[inv.name].schedule, inv.args))
                  @@ reg[inv.name])
    ELSE reg

\* the statement after pc
next_pc(inv, pc, reg) ==
    CASE pc = "unload" -> (IF inv.op = "edit" THEN "write"
                           ELSE IF inv.op = "remove" THEN "unlink" ELSE "save")
      [] pc = "unlink" -> "save"
      [] pc = "write"  -> (IF inv.op = "create" \/ edit_reloads(reg[inv.name])
                           THEN "load" ELSE "save")
      [] pc = "load"   -> "save"
      [] pc = "save"   -> "done"

\* the plist create_task and edit_task write
step_plist(inv, reg) ==
    IF inv.op = "create"
    THEN build_plist(inv.name, inv.command, create_schedule(inv.args))
    ELSE build_plist(inv.name, reg[inv.name].command, reg[inv.name].schedule)

\* the registry save_registry is called with
step_registry(inv, reg, t) ==
    CASE inv.op = "create"  -> put_task(reg, inv.name,
                                 [name       |-> inv.name,
                                  command    |-> inv.command,
                                  schedule   |-> create_schedule(inv.args),
                                  created    |-> t,
                                  enabled    |-> TRUE,
                                  plist_path |-> get_plist_path(inv.name)])
      [] inv.op = "edit"    -> put_task(reg, inv.name, ("modified" :> t) @@ reg[inv.name])
      [] inv.op = "enable"  -> [reg EXCEPT ![inv.name].enabled = TRUE]
      [] inv.op = "disable" -> [reg EXCEPT ![inv.name].enabled = FALSE]
      [] inv.op = "remove"  -> del_task(reg, inv.name)

\* one statement of the process at c.pc, on the stores c.registry, c.plists,
\* c.loaded, with c.reg in its memory and c.calls issued so far
Step(c, inv, t) ==
    LET plist_path == get_plist_path(inv.name)
        nxt == next_pc(inv, c.pc, c.reg)
    IN  CASE c.pc = "unload" ->
               [c EXCEPT !.loaded = launchctl_unload(c.loaded, c.plists, plist_path, TRUE),
                         !.calls = Append(@, Call("unload", plist_path, TRUE)),
                         !.pc = nxt]
          [] c.pc = "unlink" ->
               [c EXCEPT !.plists = unlink(c.plists, plist_path), !.pc = nxt]
          [] c.pc = "write" ->
               [c EXCEPT !.plists = write_plist(c.plists, plist_path, step_plist(inv, c.reg)),
                         !.pc = nxt]
          [] c.pc = "load" ->
               [c EXCEPT !.loaded = launchctl_load(c.loaded, c.plists, plist_path, TRUE),
                         !.calls = Append(@, Call("load", plist_path, TRUE)),
                         !.pc = nxt]
          [] c.pc = "save" ->
               [c EXCEPT !.registry = step_registry(inv, c.reg, t), !.pc = nxt]

\* the process of inv started on the stores st
Started(st, inv) ==
    [registry |-> st.registry, plists |-> st.plists, loaded |-> st.loaded, calls |-> << >>,
     pc |-> start_pc(inv, st.registry, st.plists), reg |-> start_reg(inv, st.registry)]

\* the process run to its end without interruption
RECURSIVE Finish(_, _)
Finish(c, inv) == IF c.pc \in {"done", "exit"} THEN c ELSE Finish(Step(c, inv, 0), inv)

Uninterrupted(st, inv) == Finish(Started(st, inv), inv)

CurrentStores == [registry |-> registry, plists |-> plists, loaded |-> loaded]

StepInvocations ==
    {Invocation("create", NameA, "c1", << >>, "interval" :> 300)}
    \cup {Invocation("edit", NameA, "", cmd_opt, args) :
            cmd_opt \in PairCommandOptions, args \in PairArgs}
    \cup {Invocation(op, NameA, "", << >>, << >>) : op \in {"enable", "disable", "remove"}}

StepFrame == UNCHANGED <<lastOp, lastName, outcome, lastArgs, prev>>

\* a command line is entered: the process gets as far as its first statement
\* on the stores, or exits with an error
StepBegin ==
    \E inv \in StepInvocations :
        /\ run.pc \in {"idle", "done"}
        /\ IF start_pc(inv, registry, plists) = "exit"
           THEN UNCHANGED <<run, calls>>
           ELSE /\ run' = [pc |-> start_pc(inv, registry, plists), inv |-> inv,
                           reg |-> start_reg(inv, registry), attempt |-> 1,
                           origin |-> CurrentStores]
                /\ calls' = << >>
        /\ UNCHANGED <<registry, plists, loaded, now>>
        /\ StepFrame

\* the process executes the statement it is at; the memory of a first attempt
\* that has ended is forgotten
StepTake(pc, t) ==
    /\ run.pc = pc
    /\ LET c == Step([registry |-> registry, plists |-> plists, loaded |-> loaded,
                      calls |-> calls, pc |-> run.pc, reg |-> run.reg], run.inv, t)
       IN  /\ registry' = c.registry
           /\ plists' = c.plists
           /\ loaded' = c.loaded
           /\ calls' = c.calls
           /\ run' = IF c.pc = "done" /\ run.attempt = 1 THEN Idle
                     ELSE [run EXCEPT !.pc = c.pc]
    /\ now' = t
    /\ StepFrame

StepUnload == StepTake("unload", now)

StepUnlink == StepTake("unlink", now)

StepWrite == StepTake("write", now)

StepLoad == StepTake("load", now)

StepSave == \E t \in Clock : StepTake("save", t)

\* the process is killed before the statement it is at
Interrupt ==
    /\ run.pc \in {"unload", "unlink", "write", "load", "save"}
    /\ run.attempt = 1
    /\ run' = [run EXCEPT !.pc = "killed", !.reg = << >>]
    /\ UNCHANGED <<registry, plists, loaded, now, calls>>
    /\ StepFrame

\* the same command line is entered again
Rerun ==
    /\ run.pc = "killed"
    /\ run' = [run EXCEPT !.pc = start_pc(run.inv, registry, plists),
                          !.reg = start_reg(run.inv, registry),
                          !.attempt = 2]
    /\ calls' = << >>
    /\ UNCHANGED <<registry, plists, loaded, now>>
    /\ StepFrame

\* somebody deletes the descriptor file by hand while no process is running
StepExternal ==
    /\ run.pc \in {"idle", "done"}
    /\ get_plist_path(NameA) \in DOMAIN plists
    /\ plists' = unlink(plists, get_plist_path(NameA))
    /\ run' = Idle
    /\ UNCHANGED <<registry, loaded, now, calls>>
    /\ StepFrame

NextSteps ==
    \/ StepBegin \/ StepUnload \/ StepUnlink \/ StepWrite \/ StepLoad \/ StepSave
    \/ Interrupt \/ Rerun \/ StepExternal

SpecSteps == Init /\ [][NextSteps]_vars

\* ================================================================== claims
Mutating == {"create", "edit", "enable", "disable", "remove"}

Completed(op) == lastOp = op /\ outcome = "ok"

\* every launchctl call the last invocation issued exited with status 0
CallsSucceeded == AllOk(calls)

\* no launchctl call has failed since the first run (where history is recorded)
NeverFailed == prev.clean /\ CallsSucceeded

HasDescriptor(name) == get_plist_path(name) \in DOMAIN plists

\* the descriptor of name is the one build_plist gives for its record
DescriptorCurrent(name) ==
    /\ HasDescriptor(name)
    /\ plists[get_plist_path(name)]
         = build_plist(name, registry[name].command, registry[name].schedule)

IsLoaded(name) == get_label(name) \in loaded

\* C1: after every completed create, edit, enable, disable or remove, the
\* record the invocation was about, when enabled, has a descriptor file equal
\* to build_plist of its command and schedule (also when the file had been
\* deleted by hand before the invocation).
C1_EnabledHasCurrentDescriptor ==
    (lastOp \in Mutating /\ outcome = "ok" /\ lastName \in DOMAIN registry
       /\ registry[lastName].enabled)
    => DescriptorCurrent(lastName)

\* C2: a completed disable, and a completed edit of a record with
\* enabled = false, no launchctl call having failed so far, leaves the label
\* of that record not loaded.
C2_DisabledNeverLoaded ==
    (lastOp \in {"disable", "edit"} /\ outcome = "ok" /\ NeverFailed
       /\ ~registry[lastName].enabled)
    => ~IsLoaded(lastName)

\* C3: after a completed remove the name is no registry key, it has no
\* descriptor file and, no launchctl call having failed so far, its label is
\* no longer loaded.
C3_RemoveClearsAllThree ==
    Completed("remove")
    => /\ lastName \notin DOMAIN registry
       /\ ~HasDescriptor(lastName)
       /\ NeverFailed => ~IsLoaded(lastName)

\* C4: create on a name that is a registry key exits with an error and leaves
\* the registry, the descriptor files and the loaded labels as they were.
C4_CreateExistingFails ==
    [][(lastOp' = "create" /\ lastName' \in DOMAIN registry)
       => (outcome' = "error" /\ calls' = << >> /\ UNCHANGED stores)]_vars

C4_Witness ==
    /\ lastOp = "create" /\ outcome = "error"
    /\ lastName \in DOMAIN registry
    /\ DescriptorCurrent(lastName)

\* C5: edit, enable, disable, remove and run-now on a name that is no registry
\* key, and create without a schedule option, exit with an error, issue no
\* launchctl call and leave registry, descriptor files and loaded labels as
\* they were; and no invocation other than run-now that exits with an error
\* has changed anything.
C5_ValidationFailureNoMutation ==
    [][/\ (lastOp' \in {"edit", "enable", "disable", "remove", "run"}
             /\ lastName' \notin DOMAIN registry)
          => (outcome' = "error" /\ calls' = << >> /\ UNCHANGED stores)
       /\ (\E name \in NameInputs, command \in CommandInputs, load_ok \in BOOLEAN :
             create_task(name, command, << >>, load_ok, now))
          => (outcome' = "error" /\ calls' = << >> /\ UNCHANGED stores)
       /\ (outcome' = "error" /\ lastOp' # "run")
          => (calls' = << >> /\ UNCHANGED stores)]_vars

C5_Witness ==
    /\ lastOp \in {"edit", "enable", "disable", "remove", "run"}
    /\ outcome = "error"
    /\ calls = << >>
    /\ lastName \notin DOMAIN registry
    /\ DOMAIN registry # {}

\* C6: every registry key is non-empty and uses only alphanumerics, '-', '_'.
WellFormed(name) == name # << >> /\ \A i \in 1..Len(name) : name[i] \in NameCharset

C6_KeysWellFormed == \A n \in DOMAIN registry : WellFormed(n)

\* C7: a completed edit with an interval option on a record whose schedule
\* has no interval (a Calendar schedule) leaves the record's schedule with the
\* interval as its only field, and the rewritten descriptor with
\* StartInterval and without StartCalendarInterval.
C7_EditIntervalReplacesCalendar ==
    (Completed("edit") /\ "interval" \in DOMAIN lastArgs
       /\ "interval" \notin DOMAIN prev.registry[lastName].schedule)
    => LET schedule == registry[lastName].schedule
           plist == plists[get_plist_path(lastName)]
       IN  /\ DOMAIN schedule = {"interval"}
           /\ schedule["interval"] = lastArgs["interval"]
           /\ "StartInterval" \in DOMAIN plist
           /\ plist["StartInterval"] = lastArgs["interval"]
           /\ "StartCalendarInterval" \notin DOMAIN plist

C7_Witness ==
    /\ Completed("edit")
    /\ DOMAIN lastArgs = {"interval", "hour"}
    /\ DOMAIN prev.registry[lastName].schedule = CalendarKeys
    /\ DOMAIN registry[lastName].schedule = {"interval"}

\* C8: a completed enable that directly follows a completed enable of the
\* same name leaves the record and the descriptor files as the first left them.
C8_EnableIdempotent ==
    (Completed("enable") /\ prev.lastOp = "enable" /\ prev.outcome = "ok"
       /\ prev.lastName = lastName)
    => /\ registry[lastName] = prev.registry[lastName]
       /\ plists = prev.plists

C8_Witness ==
    /\ Completed("enable") /\ prev.lastOp = "enable" /\ prev.outcome = "ok"
    /\ prev.lastName = lastName
    /\ Len(prev.calls) = 1 /\ ~prev.calls[1].ok
    /\ Len(calls) = 1 /\ calls[1].ok
    /\ registry[lastName].enabled

\* C9: a completed enable that directly follows a completed disable of the
\* same name, no launchctl call having failed so far, leaves the record with
\* enabled = true and its label loaded.
C9_DisableThenEnableLoads ==
    (Completed("enable") /\ NeverFailed
       /\ prev.lastOp = "disable" /\ prev.outcome = "ok" /\ prev.lastName = lastName)
    => (registry[lastName].enabled /\ IsLoaded(lastName))

\* C10: remove of a record whose descriptor file is gone completes without
\* error, takes the name out of the registry and leaves every other record
\* as it was.
C10_RemoveWithoutDescriptor ==
    [][(lastOp' = "remove" /\ lastName' \in DOMAIN registry
          /\ get_plist_path(lastName') \notin DOMAIN plists)
       => /\ outcome' = "ok"
          /\ DOMAIN registry' = DOMAIN registry \ {lastName'}
          /\ \A m \in DOMAIN registry' : registry'[m] = registry[m]]_vars

C10_Witness ==
    /\ Completed("remove")
    /\ calls = << >>
    /\ lastName \notin DOMAIN registry
    /\ DOMAIN registry # {}

\* C11: run-now on a name that is a registry key issues exactly one launchctl
\* start for the label of that name, leaves the registry and the descriptor
\* files as they were, and ends in an error exactly when that call failed.
C11_RunNowTriggersOnly ==
    [][(lastOp' = "run" /\ lastName' \in DOMAIN registry)
       => /\ calls' = <<Call("start", get_label(lastName'), calls'[1].ok)>>
          /\ UNCHANGED <<registry, plists>>
          /\ outcome' = (IF calls'[1].ok THEN "ok" ELSE "error")]_vars

C11_Witness ==
    /\ lastOp = "run" /\ outcome = "error"
    /\ lastName \in DOMAIN registry
    /\ Len(calls) = 1 /\ calls[1].call = "start" /\ ~calls[1].ok

\* the last launchctl call of the last invocation was a load, and it failed
LoadFailed(issued) ==
    issued # << >> /\ issued[Len(issued)].call = "load" /\ ~issued[Len(issued)].ok

\* C12: an invocation whose launchctl load failed still completes: after
\* create the record is there with enabled = true and its descriptor file
\* exists, after enable the record has enabled = true, and after edit the
\* record holds the command and the schedule options that were given.
C12_FailedLoadStillPersists ==
    [][/\ (lastOp' = "create" /\ LoadFailed(calls'))
          => /\ outcome' = "ok"
             /\ lastName' \in DOMAIN registry'
             /\ registry'[lastName'].enabled
             /\ get_plist_path(lastName') \in DOMAIN plists'
       /\ (lastOp' = "enable" /\ LoadFailed(calls'))
          => (outcome' = "ok" /\ registry'[lastName'].enabled)
       /\ \A cmd_opt \in PairCommandOptions, args \in PairArgs, unload_ok \in BOOLEAN,
             t \in Clock :
             (/\ NameA \in DOMAIN registry
              /\ edit_task(NameA, cmd_opt, args, unload_ok, FALSE, t)
              /\ LoadFailed(calls'))
             => /\ outcome' = "ok"
                /\ registry'[NameA].command
                     = (IF cmd_opt = << >> THEN registry[NameA].command ELSE cmd_opt[1])
                /\ \A k \in DOMAIN args : /\ k \in DOMAIN registry'[NameA].schedule
                                          /\ registry'[NameA].schedule[k] = args[k]]_vars

C12_Witness ==
    /\ Completed("edit") /\ LoadFailed(calls)
    /\ prev.registry[lastName].command = "c1"
    /\ registry[lastName].command = "c2"
    /\ lastArgs = ("hour" :> 9)
    /\ DOMAIN prev.registry[lastName].schedule = {"interval"}
    /\ DOMAIN registry[lastName].schedule = {"hour"}

\* C13: a completed create leaves the record with created set to the time of
\* the invocation and without modified; a completed edit, enable or disable
\* leaves it with modified no older than the last clock reading and with
\* created as it was.
C13_TimestampsFollowLifecycle ==
    /\ Completed("create")
       => /\ registry[lastName].created = now
          /\ "modified" \notin DOMAIN registry[lastName]
    /\ (lastOp \in {"edit", "enable", "disable"} /\ outcome = "ok")
       => /\ "modified" \in DOMAIN registry[lastName]
          /\ registry[lastName].modified >= now
          /\ registry[lastName].created = prev.registry[lastName].created

\* C14: every record whose schedule has an interval has an interval of at
\* least one second.
C14_IntervalPositive ==
    \A n \in DOMAIN registry :
        "interval" \in DOMAIN registry[n].schedule => registry[n].schedule["interval"] > 0

\* the schedule is one variant: an interval alone, or calendar fields alone
OneVariant(schedule) ==
    /\ DOMAIN schedule # {}
    /\ DOMAIN schedule = {"interval"} \/ DOMAIN schedule \subseteq CalendarKeys

\* C17: every record's schedule is one variant and not empty; a completed
\* edit without an interval option leaves the schedule as it was when no
\* calendar option was given, and otherwise sets the given calendar fields,
\* keeps the calendar fields that were not given and drops the interval.
C17_OneVariantAndMerge ==
    /\ \A n \in DOMAIN registry : OneVariant(registry[n].schedule)
    /\ (Completed("edit") /\ "interval" \notin DOMAIN lastArgs)
       => LET old == prev.registry[lastName].schedule
              new == registry[lastName].schedule
          IN  IF DOMAIN lastArgs = {}
              THEN new = old
              ELSE /\ DOMAIN new = (DOMAIN old \ {"interval"}) \cup DOMAIN lastArgs
                   /\ \A k \in DOMAIN new :
                        new[k] = (IF k \in DOMAIN lastArgs THEN lastArgs[k] ELSE old[k])

C17_Witness ==
    /\ Completed("edit")
    /\ lastArgs = ("hour" :> 9)
    /\ DOMAIN prev.registry[lastName].schedule = {"hour", "minute"}
    /\ prev.registry[lastName].schedule["hour"] = 0
    /\ DOMAIN registry[lastName].schedule = {"hour", "minute"}
    /\ registry[lastName].schedule["hour"] = 9

\* an edit with a calendar option on an Interval record
C17_WitnessFromInterval ==
    /\ Completed("edit")
    /\ DOMAIN lastArgs = {"weekday", "day"}
    /\ DOMAIN prev.registry[lastName].schedule = {"interval"}
    /\ DOMAIN registry[lastName].schedule = {"weekday", "day"}

CallKinds(issued) == [i \in 1..Len(issued) |-> issued[i].call]

\* C16: every invocation that exits without error has issued its launchctl
\* calls once each and none skipped: create one load, enable one load, disable
\* one unload, remove one unload, edit one unload followed by one load when the
\* record is enabled, run-now one start.
C16_EachCallExactlyOnce ==
    /\ Completed("create")  => CallKinds(calls) = <<"load">>
    /\ Completed("enable")  => CallKinds(calls) = <<"load">>
    /\ Completed("disable") => CallKinds(calls) = <<"unload">>
    /\ Completed("remove")  => CallKinds(calls) = <<"unload">>
    /\ Completed("edit")    => CallKinds(calls) = (IF registry[lastName].enabled
                                                   THEN <<"unload", "load">>
                                                   ELSE <<"unload">>)
    /\ Completed("run")     => CallKinds(calls) = <<"start">>

\* the record of name, if any
RecordOf(reg, name) == IF name \in DOMAIN reg THEN <<reg[name]>> ELSE << >>

\* the descriptor file of name, if any
DescriptorOf(files, name) ==
    IF get_plist_path(name) \in DOMAIN files THEN <<files[get_plist_path(name)]>> ELSE << >>

\* C20: an invocation on a name changes no other name's record, descriptor
\* file or loaded state; enable and disable leave the command, schedule,
\* created and descriptor file of their own record as they were, and edit
\* leaves its enabled flag as it was.
C20_IsolationAndFrame ==
    [][lastOp' # "external"
       => /\ \A m \in TaskNames \ {lastName'} :
                /\ RecordOf(registry', m) = RecordOf(registry, m)
                /\ DescriptorOf(plists', m) = DescriptorOf(plists, m)
                /\ (get_label(m) \in loaded') = (get_label(m) \in loaded)
          /\ (lastOp' \in {"enable", "disable"} /\ lastName' \in DOMAIN registry)
             => /\ registry'[lastName'].command = registry[lastName'].command
                /\ registry'[lastName'].schedule = registry[lastName'].schedule
                /\ registry'[lastName'].created = registry[lastName'].created
                /\ DescriptorOf(plists', lastName') = DescriptorOf(plists, lastName')
          /\ (lastOp' = "edit" /\ lastName' \in DOMAIN registry)
             => registry'[lastName'].enabled = registry[lastName'].enabled]_vars

C20_Witness ==
    /\ Completed("disable") /\ lastName = NameA
    /\ calls = <<Call("unload", get_plist_path(NameA), TRUE)>>
    /\ ~registry[NameA].enabled /\ ~IsLoaded(NameA) /\ HasDescriptor(NameA)
    /\ NameDot \in DOMAIN registry
    /\ registry[NameDot].enabled /\ IsLoaded(NameDot) /\ DescriptorCurrent(NameDot)

\* a descriptor file exists for exactly the registry keys
DescriptorsMatchRegistry ==
    /\ \A n \in DOMAIN registry : HasDescriptor(n)
    /\ \A p \in DOMAIN plists : \E n \in DOMAIN registry : p = get_plist_path(n)

\* every loaded label is the label of an enabled record
LoadedAreEnabled ==
    \A l \in loaded : \E n \in DOMAIN registry : l = get_label(n) /\ registry[n].enabled

NoUnloadFailed == prev.cleanUnload /\ UnloadsOk(calls)

NoTimes(reg) ==
    [n \in DOMAIN reg |-> [k \in DOMAIN reg[n] \ {"created", "modified"} |-> reg[n][k]]]

\* C15: in every edit of an existing record, when the descriptor file is about
\* to be written one unload has been issued and the label is not loaded; after
\* the write the descriptor is the one of the edited record; and when the
\* registry is about to be saved the calls issued are one unload, followed by
\* one load exactly when the record is enabled.
C15_EditUnloadsWritesLoads ==
    (run.inv.op = "edit" /\ run.pc \in {"write", "load", "save"})
    => LET name == run.inv.name
       IN  /\ run.pc = "write"
              => (CallKinds(calls) = <<"unload">> /\ ~IsLoaded(name))
           /\ run.pc \in {"load", "save"}
              => /\ HasDescriptor(name)
                 /\ plists[get_plist_path(name)] = step_plist(run.inv, run.reg)
           /\ run.pc = "save"
              => CallKinds(calls) = (IF run.reg[name].enabled THEN <<"unload", "load">>
                                     ELSE <<"unload">>)

\* C18: when a process was killed between two statements and the same command
\* line has been run again to its end, the registry without timestamps, the
\* descriptor files and the loaded labels are those an uninterrupted run from
\* the stores the killed process had started on ends with.
C18_RerunConverges ==
    (run.pc = "done" /\ run.attempt = 2)
    => LET u == Uninterrupted(run.origin, run.inv)
       IN  /\ NoTimes(registry) = NoTimes(u.registry)
           /\ plists = u.plists
           /\ loaded = u.loaded

====
